---- MODULE Spec2Model ----
(***************************************************************************)
(* Chicago Shore temperature checker: the extractor                        *)
(* (fetch_chicago_shore_temp), the notifier (send_telegram), the one-shot  *)
(* script (check_shore_temp.main) and the interactive bot (bot.py).        *)
(*                                                                         *)
(* Text is a sequence of one-character strings.  The 13-character literal  *)
(* CHICAGO SHORE is one symbol, "L" (upper case) or "l" (lower case): it   *)
(* holds no digit, no dot and no F, and its only blank is inside it, so    *)
(* neither pattern can match a part of it in any other role than "some     *)
(* character".  An Optional[int] is a sequence of length 0 (None) or 1.    *)
(***************************************************************************)
EXTENDS Integers, Sequences, FiniteSets, TLC

VARIABLES
    \* configuration, read once at import (module globals)
    TELEGRAM_BOT_TOKEN, TELEGRAM_CHAT_ID, RENDER_EXTERNAL_URL,
    \* environment: what soup.get_text() yields for the report page
    text_content,
    \* fetch_chicago_shore_temp: parameter, locals, position, call history
    max_retries, fpc, attempt, last_error, get_log, match, fallback_consulted,
    fetch_ret, returns,
    \* send_telegram: locals, position, the POSTs issued, call history
    spc, text, chat_ids, idx, success_count, post_log, send_ret, send_calls,
    \* the caller: check_shore_temp.main or bot.main and its handlers
    pc, app_built, started, replies

cfgVars == <<TELEGRAM_BOT_TOKEN, TELEGRAM_CHAT_ID, RENDER_EXTERNAL_URL, text_content>>
fetchVars == <<max_retries, fpc, attempt, last_error, get_log, match,
               fallback_consulted, fetch_ret, returns>>
sendVars == <<spc, text, chat_ids, idx, success_count, post_log, send_ret, send_calls>>
topVars == <<pc, app_built, started, replies>>
vars == <<cfgVars, fetchVars, sendVars, topVars>>

----------------------------------------------------------------------------
(* Bounds of the model *)

MaxDocLen == 5
MaxChatIdLen == 5
MaxRetriesBound == 3
MaxCalls == 3
MaxUpdates == 2

DefaultMaxRetries == 2

SeqsUpTo(S, n) == UNION {[1..k -> S] : k \in 0..n}

None == <<>>
Some(v) == <<v>>

----------------------------------------------------------------------------
(* Character classes of the two patterns *)

Digits == {"0", "1", "2", "3", "4", "5", "6", "7", "8", "9"}

IsDigit(c) == c \in Digits

\* \s
IsSpace(c) == c \in {" ", "\n"}

\* [.\s]
IsDotOrSpace(c) == c = "." \/ IsSpace(c)

\* the literal CHICAGO SHORE under re.IGNORECASE
IsLabel(c) == c \in {"L", "l"}

\* the literal F under re.IGNORECASE
IsF(c) == c \in {"F", "f"}

\* "." under re.DOTALL: any character
DotMatches(c) == TRUE

DigitVal(c) ==
    CASE c = "0" -> 0 [] c = "1" -> 1 [] c = "2" -> 2 [] c = "3" -> 3
      [] c = "4" -> 4 [] c = "5" -> 5 [] c = "6" -> 6 [] c = "7" -> 7
      [] c = "8" -> 8 [] c = "9" -> 9

RECURSIVE ParseInt(_)
\* int(match.group(1)) on a run of ASCII digits: base 10, most significant first
ParseInt(ds) ==
    IF ds = <<>> THEN 0
    ELSE 10 * ParseInt(SubSeq(ds, 1, Len(ds) - 1)) + DigitVal(ds[Len(ds)])

----------------------------------------------------------------------------
(* The regular-expression engine, as far as the two patterns use it.       *)
(* A greedy class run followed by a disjoint class can only match at its   *)
(* maximal length: a shorter run leaves a character of the run's own class *)
(* in front of the next item.                                              *)

RECURSIVE SkipDotOrSpace(_, _)
SkipDotOrSpace(t, p) ==
    IF p <= Len(t) /\ IsDotOrSpace(t[p]) THEN SkipDotOrSpace(t, p + 1) ELSE p

RECURSIVE SkipDigits(_, _)
SkipDigits(t, p) ==
    IF p <= Len(t) /\ IsDigit(t[p]) THEN SkipDigits(t, p + 1) ELSE p

RECURSIVE SkipSpace(_, _)
SkipSpace(t, p) ==
    IF p <= Len(t) /\ IsSpace(t[p]) THEN SkipSpace(t, p + 1) ELSE p

NoMatch == <<>>
Group1(m) == m[1].group1

\* CHICAGO SHORE[.\s]+(\d+) anchored at position i
PatternMatchAt(t, i) ==
    IF ~IsLabel(t[i]) THEN NoMatch
    ELSE LET a == SkipDotOrSpace(t, i + 1)
             b == SkipDigits(t, a)
         IN  IF a > i + 1 /\ b > a
             THEN <<[start |-> i, group1 |-> SubSeq(t, a, b - 1)]>>
             ELSE NoMatch

RECURSIVE PatternSearchFrom(_, _)
PatternSearchFrom(t, i) ==
    IF i > Len(t) THEN NoMatch
    ELSE IF PatternMatchAt(t, i) # NoMatch THEN PatternMatchAt(t, i)
    ELSE PatternSearchFrom(t, i + 1)

\* pattern.search(text_content): the leftmost match
PatternSearch(t) == PatternSearchFrom(t, 1)

\* the tail without its unit marker: (\d+)\s*
TailMatchAtNoUnit(t, j) ==
    LET b == SkipDigits(t, j)
    IN  IF b > j THEN <<SubSeq(t, j, b - 1)>> ELSE NoMatch

\* (\d+)\s*F at position j
TailMatchAt(t, j) ==
    LET b == SkipDigits(t, j)
        w == SkipSpace(t, b)
    IN  IF b > j /\ w <= Len(t) /\ IsF(t[w])
        THEN <<SubSeq(t, j, b - 1)>>
        ELSE NoMatch

RECURSIVE LazyTail(_, _)
\* .*? followed by the tail: the shortest stretch of "." after which the tail matches
LazyTail(t, j) ==
    IF j > Len(t) THEN NoMatch
    ELSE IF TailMatchAt(t, j) # NoMatch THEN TailMatchAt(t, j)
    ELSE IF DotMatches(t[j]) THEN LazyTail(t, j + 1)
    ELSE NoMatch

\* CHICAGO SHORE.*?(\d+)\s*F anchored at position i
PatternFMatchAt(t, i) ==
    IF ~IsLabel(t[i]) THEN NoMatch
    ELSE LET g == LazyTail(t, i + 1)
         IN  IF g = NoMatch THEN NoMatch
             ELSE <<[start |-> i, group1 |-> g[1]]>>

RECURSIVE PatternFSearchFrom(_, _)
PatternFSearchFrom(t, i) ==
    IF i > Len(t) THEN NoMatch
    ELSE IF PatternFMatchAt(t, i) # NoMatch THEN PatternFMatchAt(t, i)
    ELSE PatternFSearchFrom(t, i + 1)

\* pattern_f.search(text_content): the leftmost match
PatternFSearch(t) == PatternFSearchFrom(t, 1)

----------------------------------------------------------------------------
(* fetch_chicago_shore_temp *)

\* one attempt too many
LoopBoundOffByOne(mr) == mr + 2

\* range(max_retries + 1)
LoopBound(mr) == mr + 1

\* the patterns in the other order: the looser one first
FindMatchFallbackFirst(t) ==
    LET m == PatternFSearch(t)
    IN  IF m = NoMatch
        THEN [match |-> PatternSearch(t), consulted |-> TRUE]
        ELSE [match |-> m, consulted |-> TRUE]

\* match = pattern.search(...); if not match: match = pattern_f.search(...)
FindMatch(t) ==
    LET m == PatternSearch(t)
    IN  IF m = NoMatch
        THEN [match |-> PatternFSearch(t), consulted |-> TRUE]
        ELSE [match |-> m, consulted |-> FALSE]

\* a result that is dropped once an attempt of the call has failed
ReturnValueAfterError(m) ==
    IF m # NoMatch /\ last_error = "none" THEN Some(ParseInt(Group1(m))) ELSE None

\* if match: return int(match.group(1)); return None
\* (ValueError cannot arise: group 1 is a non-empty run of digits)
ReturnValue(m) ==
    IF m # NoMatch THEN Some(ParseInt(Group1(m))) ELSE None

GetErrors == {"network", "http"}

\* entry: the parameter is bound, headers and last_error are set, the loop starts
FetchEnter(mr) ==
    /\ fpc \in {"idle", "done"}
    /\ max_retries' = mr
    /\ attempt' = 0
    /\ last_error' = "none"
    /\ get_log' = <<>>
    /\ match' = NoMatch
    /\ fallback_consulted' = FALSE
    /\ fetch_ret' = None
    /\ fpc' = "loop"
    /\ UNCHANGED returns

\* requests.get and raise_for_status succeed: break
GetOk ==
    /\ fpc = "loop"
    /\ attempt < LoopBound(max_retries)
    /\ get_log' = Append(get_log, "ok")
    /\ fpc' = "parse"
    /\ UNCHANGED <<max_retries, attempt, last_error, match, fallback_consulted,
                   fetch_ret, returns>>
    /\ UNCHANGED <<cfgVars, sendVars, topVars>>

\* requests.get raises (network) or raise_for_status raises (HTTP error
\* status): the error is kept and logged, the loop sleeps and goes on
GetFail ==
    /\ fpc = "loop"
    /\ attempt < LoopBound(max_retries)
    /\ \E e \in GetErrors :
          /\ last_error' = e
          /\ get_log' = Append(get_log, e)
    /\ attempt' = attempt + 1
    /\ UNCHANGED <<max_retries, fpc, match, fallback_consulted, fetch_ret, returns>>
    /\ UNCHANGED <<cfgVars, sendVars, topVars>>

\* the loop's else branch: every attempt failed
FetchExhausted ==
    /\ fpc = "loop"
    /\ attempt >= LoopBound(max_retries)
    /\ fetch_ret' = None
    /\ returns' = Append(returns, [fetched |-> FALSE, value |-> None])
    /\ fpc' = "done"
    /\ UNCHANGED <<max_retries, attempt, last_error, get_log, match, fallback_consulted>>
    /\ UNCHANGED <<cfgVars, sendVars, topVars>>

\* the text is searched and the result returned
FetchParse ==
    /\ fpc = "parse"
    /\ LET f == FindMatch(text_content)
       IN  /\ match' = f.match
           /\ fallback_consulted' = f.consulted
           /\ fetch_ret' = ReturnValue(f.match)
           /\ returns' = Append(returns, [fetched |-> TRUE, value |-> ReturnValue(f.match)])
    /\ fpc' = "done"
    /\ UNCHANGED <<max_retries, attempt, last_error, get_log>>
    /\ UNCHANGED <<cfgVars, sendVars, topVars>>

----------------------------------------------------------------------------
(* send_telegram *)

\* str.strip(): leading and trailing whitespace removed
RECURSIVE LStrip(_)
LStrip(s) == IF s # <<>> /\ IsSpace(Head(s)) THEN LStrip(Tail(s)) ELSE s

RECURSIVE RStrip(_)
RStrip(s) ==
    IF s # <<>> /\ IsSpace(s[Len(s)]) THEN RStrip(SubSeq(s, 1, Len(s) - 1)) ELSE s

Strip(s) == LStrip(RStrip(s))

RECURSIVE SplitComma(_)
\* str.split(","): the pieces between commas, empty pieces kept
SplitComma(s) ==
    IF \A i \in 1..Len(s) : s[i] # "," THEN <<s>>
    ELSE LET c == CHOOSE i \in 1..Len(s) : s[i] = "," /\ \A k \in 1..(i - 1) : s[k] # ","
         IN  <<SubSeq(s, 1, c - 1)>> \o SplitComma(SubSeq(s, c + 1, Len(s)))

RECURSIVE StrippedNonBlank(_)
StrippedNonBlank(ps) ==
    IF ps = <<>> THEN <<>>
    ELSE IF Strip(Head(ps)) # <<>>
         THEN <<Strip(Head(ps))>> \o StrippedNonBlank(Tail(ps))
         ELSE StrippedNonBlank(Tail(ps))

\* the comprehension without its filter: blank pieces are kept
ParseChatIdsUnfiltered(s) == [i \in 1..Len(SplitComma(s)) |-> Strip(SplitComma(s)[i])]

\* [cid.strip() for cid in TELEGRAM_CHAT_ID.split(",") if cid.strip()]
ParseChatIds(s) == StrippedNonBlank(SplitComma(s))

\* success only when every destination took the message
SendResultAll(count) == count = Len(chat_ids)

\* return success_count > 0
SendResult(count) == count > 0

\* a failed destination ends the loop
AfterFailureStop(i) == Len(chat_ids) + 1

\* a failed destination is logged and the loop goes on with the next one
AfterFailure(i) == i + 1

NoText == [body |-> "", temp |-> None, note |-> ""]

\* entry: the configuration is checked and the chat ids are parsed
SendEnter(msg) ==
    /\ spc \in {"idle", "done"}
    /\ send_calls' = send_calls + 1
    /\ text' = msg
    /\ post_log' = <<>>
    /\ success_count' = 0
    /\ idx' = 1
    /\ IF TELEGRAM_BOT_TOKEN = "" \/ TELEGRAM_CHAT_ID = <<>>
       THEN /\ chat_ids' = <<>>
            /\ send_ret' = FALSE
            /\ spc' = "done"
       ELSE /\ chat_ids' = ParseChatIds(TELEGRAM_CHAT_ID)
            /\ send_ret' = FALSE
            /\ spc' = IF ParseChatIds(TELEGRAM_CHAT_ID) = <<>> THEN "done" ELSE "loop"

\* requests.post returns a success status for the next chat id
PostOk ==
    /\ spc = "loop"
    /\ idx <= Len(chat_ids)
    /\ post_log' = Append(post_log, [chat_id |-> chat_ids[idx], outcome |-> "ok"])
    /\ success_count' = success_count + 1
    /\ idx' = idx + 1
    /\ UNCHANGED <<spc, text, chat_ids, send_ret, send_calls>>
    /\ UNCHANGED <<cfgVars, fetchVars, topVars>>

\* requests.post returns a non-success status: the error is logged, from the
\* JSON description when the body parses and from the raw body otherwise
PostRejected ==
    /\ spc = "loop"
    /\ idx <= Len(chat_ids)
    /\ \E o \in {"status_json", "status_raw"} :
          post_log' = Append(post_log, [chat_id |-> chat_ids[idx], outcome |-> o])
    /\ idx' = AfterFailure(idx)
    /\ UNCHANGED <<spc, text, chat_ids, success_count, send_ret, send_calls>>
    /\ UNCHANGED <<cfgVars, fetchVars, topVars>>

\* requests.post raises a RequestException: the error is logged
PostException ==
    /\ spc = "loop"
    /\ idx <= Len(chat_ids)
    /\ post_log' = Append(post_log, [chat_id |-> chat_ids[idx], outcome |-> "exception"])
    /\ idx' = AfterFailure(idx)
    /\ UNCHANGED <<spc, text, chat_ids, success_count, send_ret, send_calls>>
    /\ UNCHANGED <<cfgVars, fetchVars, topVars>>

\* the loop is over
SendReturn ==
    /\ spc = "loop"
    /\ idx > Len(chat_ids)
    /\ send_ret' = SendResult(success_count)
    /\ spc' = "done"
    /\ UNCHANGED <<text, chat_ids, idx, success_count, post_log, send_calls>>
    /\ UNCHANGED <<cfgVars, fetchVars, topVars>>

----------------------------------------------------------------------------
(* Report texts *)

DocAlphabet == {"L", ".", " ", "4", "7", "F", "x"}

SampleDocs ==
    { <<"L", ".", ".", ".", ".", "4", "7", ".">>,
      <<"L", " ", " ", "t", "e", "x", "t", " ", "4", "7", " ", "F">>,
      <<"x", " ", "4", "7", " ", "F">>,
      <<"L", " ", "N", "/", "A">>,
      <<"L", " ", "N", "/", "A", " ", "5", "2", "F">>,
      <<"L", " ", "N", "/", "A", "\n", "l", ".", "3", "9">>,
      <<"L", ".", "4", "x", "7", "F">>,
      <<"L", "x", "7", "F", "l", ".", "4", "1">>,
      <<"l", "x", "\n", "6", "3", " ", "f">>,
      <<"L", "4", "7">>,
      <<>> }

Docs == SeqsUpTo(DocAlphabet, MaxDocLen) \cup SampleDocs

IdleFetch ==
    /\ max_retries = DefaultMaxRetries
    /\ fpc = "idle"
    /\ attempt = 0
    /\ last_error = "none"
    /\ get_log = <<>>
    /\ match = NoMatch
    /\ fallback_consulted = FALSE
    /\ fetch_ret = None
    /\ returns = <<>>

IdleSend ==
    /\ spc = "idle"
    /\ text = NoText
    /\ chat_ids = <<>>
    /\ idx = 1
    /\ success_count = 0
    /\ post_log = <<>>
    /\ send_ret = FALSE
    /\ send_calls = 0

IdleTop ==
    /\ pc = "none"
    /\ app_built = FALSE
    /\ started = {}
    /\ replies = <<>>

----------------------------------------------------------------------------
(* The extractor alone, on every text of the bounded set, the GET succeeding *)

InitExtract ==
    /\ TELEGRAM_BOT_TOKEN = ""
    /\ TELEGRAM_CHAT_ID = <<>>
    /\ RENDER_EXTERNAL_URL = ""
    /\ text_content \in Docs
    /\ IdleFetch /\ IdleSend /\ IdleTop

ExtractCall ==
    /\ fpc = "idle"
    /\ FetchEnter(DefaultMaxRetries)
    /\ UNCHANGED <<cfgVars, sendVars, topVars>>

NextExtract == ExtractCall \/ GetOk \/ FetchParse

SpecExtract == InitExtract /\ [][NextExtract]_vars

----------------------------------------------------------------------------
(* The extractor called repeatedly on one text, every GET free to fail *)

InitFetch ==
    /\ TELEGRAM_BOT_TOKEN = ""
    /\ TELEGRAM_CHAT_ID = <<>>
    /\ RENDER_EXTERNAL_URL = ""
    /\ text_content \in SampleDocs
    /\ IdleFetch /\ IdleSend /\ IdleTop

FetchCall ==
    /\ Len(returns) < MaxCalls
    /\ \E mr \in 0..MaxRetriesBound : FetchEnter(mr)
    /\ UNCHANGED <<cfgVars, sendVars, topVars>>

NextFetch == FetchCall \/ GetOk \/ GetFail \/ FetchExhausted \/ FetchParse

SpecFetch == InitFetch /\ [][NextFetch]_vars

----------------------------------------------------------------------------
(* What the two patterns denote, stated over positions instead of by       *)
(* scanning: the claims about extraction are written against these.        *)

\* the call has returned and its last GET succeeded
Fetched ==
    /\ fpc = "done"
    /\ get_log # <<>>
    /\ get_log[Len(get_log)] = "ok"

\* the digits t[a..b] with b as far right as the run goes
LongestDigits(t, a) ==
    LET b == CHOOSE x \in a..Len(t) :
                 /\ \A k \in a..x : IsDigit(t[k])
                 /\ (x = Len(t) \/ ~IsDigit(t[x + 1]))
    IN  SubSeq(t, a, b)

\* label at i, one or more dots/blanks, then a digit at a
TightAt(t, i, a) ==
    /\ IsLabel(t[i])
    /\ a > i + 1
    /\ IsDigit(t[a])
    /\ \A k \in (i + 1)..(a - 1) : IsDotOrSpace(t[k])

TightStarts(t) == {i \in 1..Len(t) : \E a \in (i + 2)..Len(t) : TightAt(t, i, a)}

TightCapture(t) ==
    LET i == CHOOSE x \in TightStarts(t) : \A y \in TightStarts(t) : x <= y
        a == CHOOSE x \in (i + 2)..Len(t) : TightAt(t, i, x)
    IN  LongestDigits(t, a)

\* digits t[j..e], then blanks only, then F at q
TailAt(t, j, e, q) ==
    /\ \A k \in j..e : IsDigit(t[k])
    /\ \A k \in (e + 1)..(q - 1) : IsSpace(t[k])
    /\ IsF(t[q])

\* a digit run starting at j that is followed by optional blanks and F
TailStartsAt(t, j) ==
    /\ IsDigit(t[j])
    /\ \E e \in j..Len(t) : \E q \in (e + 1)..Len(t) : TailAt(t, j, e, q)

LooseStarts(t) ==
    {i \in 1..Len(t) : IsLabel(t[i]) /\ \E j \in (i + 1)..Len(t) : TailStartsAt(t, j)}

LooseCapture(t) ==
    LET i == CHOOSE x \in LooseStarts(t) : \A y \in LooseStarts(t) : x <= y
        J == {j \in (i + 1)..Len(t) : TailStartsAt(t, j)}
        j == CHOOSE x \in J : \A y \in J : x <= y
        E == {e \in j..Len(t) : \E q \in (e + 1)..Len(t) : TailAt(t, j, e, q)}
        e == CHOOSE x \in E : \A y \in E : x >= y
    IN  SubSeq(t, j, e)

HasLabel(t) == \E i \in 1..Len(t) : IsLabel(t[i])

FirstLabel(t) ==
    CHOOSE i \in 1..Len(t) : IsLabel(t[i]) /\ \A k \in 1..(i - 1) : ~IsLabel(t[k])

\* k is where the token after the first label starts: the first character
\* after the label that is neither a dot nor a blank
TokenAt(t, k) ==
    /\ HasLabel(t)
    /\ k \in (FirstLabel(t) + 1)..Len(t)
    /\ ~IsDotOrSpace(t[k])
    /\ \A m \in (FirstLabel(t) + 1)..(k - 1) : IsDotOrSpace(t[m])

\* the first label is followed by a token that does not start with a digit
NonNumericToken(t) == \E k \in 1..Len(t) : TokenAt(t, k) /\ ~IsDigit(t[k])

\* nothing from the token on completes either pattern
NothingAfterToken(t) ==
    \A k \in 1..Len(t) : TokenAt(t, k) =>
        /\ \A j \in k..Len(t) : ~TailStartsAt(t, j)
        /\ \A i \in k..Len(t) : i \notin TightStarts(t)

----------------------------------------------------------------------------
(* Claims about the extractor *)

\* C4: a call issues at most max_retries + 1 GETs and none after the first
\* successful one; when every GET fails it has issued exactly
\* max_retries + 1 of them and returns None.
C4_BoundedRetries ==
    /\ Len(get_log) <= max_retries + 1
    /\ \A i \in 1..(Len(get_log) - 1) : get_log[i] # "ok"
    /\ (fpc = "done" /\ \A i \in 1..Len(get_log) : get_log[i] # "ok") =>
          /\ Len(get_log) = max_retries + 1
          /\ fetch_ret = None

C4_Witness ==
    /\ fpc = "done"
    /\ max_retries = DefaultMaxRetries
    /\ get_log = <<"network", "http", "network">>
    /\ fetch_ret = None

\* C5 as stated: a non-numeric token after the label gives None, whatever
\* follows the token.
C5_NonNumericAlwaysNone ==
    (Fetched /\ NonNumericToken(text_content)) => fetch_ret = None

\* C5 as amended: a non-numeric token after the label gives None provided
\* that, from the token on, no digit run is followed by optional blanks and
\* F and no further label is followed by dots/blanks and digits.
C5_NonNumericNoneUnlessCompleted ==
    (Fetched /\ NonNumericToken(text_content) /\ NothingAfterToken(text_content))
        => fetch_ret = None

C5_Witness ==
    /\ Fetched
    /\ NonNumericToken(text_content)
    /\ NothingAfterToken(text_content)
    /\ \E k \in 1..Len(text_content) :
          /\ TokenAt(text_content, k)
          /\ \E p \in (k + 1)..Len(text_content) : IsDigit(text_content[p])
    /\ fetch_ret = None

\* C6: when the tight pattern matches somewhere, its leftmost match's number
\* is returned and the fallback is not consulted; otherwise the fallback is
\* consulted and its number, if it matches, is returned.
C6_FirstPatternWins ==
    Fetched =>
        IF TightStarts(text_content) # {}
        THEN /\ ~fallback_consulted
             /\ fetch_ret = Some(ParseInt(TightCapture(text_content)))
        ELSE /\ fallback_consulted
             /\ fetch_ret = IF LooseStarts(text_content) # {}
                            THEN Some(ParseInt(LooseCapture(text_content)))
                            ELSE None

\* both patterns match and capture different numbers
C6_Witness ==
    /\ Fetched
    /\ TightStarts(text_content) # {}
    /\ LooseStarts(text_content) # {}
    /\ TightCapture(text_content) # LooseCapture(text_content)
    /\ fetch_ret = Some(ParseInt(TightCapture(text_content)))

\* C10: all calls that fetched the text returned the same value, whatever
\* the calls before them did.
C10_SameTextSameReading ==
    \A i, j \in 1..Len(returns) :
        (returns[i].fetched /\ returns[j].fetched) => returns[i].value = returns[j].value

C10_Witness ==
    /\ Len(returns) = 3
    /\ returns[1].fetched /\ ~returns[2].fetched /\ returns[3].fetched
    /\ returns[3].value # None
    /\ last_error # "none"

----------------------------------------------------------------------------
(* The notifier alone, on every configuration of the bounded set *)

ChatIdAlphabet == {"1", "2", ",", " "}

\* os.getenv("TELEGRAM_CHAT_ID", "").strip()
ChatIdSettings == {Strip(r) : r \in SeqsUpTo(ChatIdAlphabet, MaxChatIdLen)}

\* os.getenv("TELEGRAM_BOT_TOKEN", "").strip()
TokenSettings == {"", "tok"}

InitSend ==
    /\ TELEGRAM_BOT_TOKEN \in TokenSettings
    /\ TELEGRAM_CHAT_ID \in ChatIdSettings
    /\ RENDER_EXTERNAL_URL = ""
    /\ text_content = <<>>
    /\ IdleFetch /\ IdleSend /\ IdleTop

SendCall ==
    /\ spc = "idle"
    /\ SendEnter([body |-> "message", temp |-> None, note |-> ""])
    /\ UNCHANGED <<cfgVars, fetchVars, topVars>>

NextSend == SendCall \/ PostOk \/ PostRejected \/ PostException \/ SendReturn

SpecSend == InitSend /\ [][NextSend]_vars

\* the chat-id setting holds no non-blank entry: commas and blanks only
NoChatIdEntry == \A i \in 1..Len(TELEGRAM_CHAT_ID) : TELEGRAM_CHAT_ID[i] = "," \/ IsSpace(TELEGRAM_CHAT_ID[i])

ConfigAbsent == TELEGRAM_BOT_TOKEN = "" \/ TELEGRAM_CHAT_ID = <<>> \/ NoChatIdEntry

PostedIds == [i \in 1..Len(post_log) |-> post_log[i].chat_id]

\* C1: with destinations configured, the result is True exactly when some
\* destination's POST got a success status.
C1_TrueIffSomeDelivered ==
    (spc = "done" /\ send_calls > 0) =>
        /\ send_ret <=> \E i \in 1..Len(post_log) : post_log[i].outcome = "ok"
        /\ ~ConfigAbsent => post_log # <<>>

\* two destinations, the first rejected and the second delivered
C1_Witness ==
    /\ spc = "done"
    /\ Len(post_log) = 2
    /\ post_log[1].outcome = "status_json"
    /\ post_log[2].outcome = "ok"
    /\ send_ret = TRUE

\* C2: the POSTs issued so far are the destinations in list order, one
\* each, and the call returns only when every destination has had its POST.
C2_EachOnceInOrder ==
    /\ Len(post_log) <= Len(chat_ids)
    /\ PostedIds = SubSeq(chat_ids, 1, Len(post_log))
    /\ (spc = "done" /\ send_calls > 0) => Len(post_log) = Len(chat_ids)

\* a failure on the first destination, then the second is still tried
C2_Witness ==
    /\ spc = "done"
    /\ Len(chat_ids) >= 2
    /\ chat_ids[1] # chat_ids[2]
    /\ post_log[1].outcome = "exception"
    /\ PostedIds = chat_ids

\* C3: without a token, without a chat-id setting, or with a setting that
\* holds no non-blank entry, the call issues no POST and returns False.
C3_AbsentConfigNoPost ==
    ConfigAbsent =>
        /\ post_log = <<>>
        /\ spc # "loop"
        /\ spc = "done" => send_ret = FALSE

\* a token and a non-empty setting made of commas and blanks only
C3_Witness ==
    /\ spc = "done"
    /\ TELEGRAM_BOT_TOKEN # ""
    /\ Len(TELEGRAM_CHAT_ID) >= 2
    /\ NoChatIdEntry
    /\ send_ret = FALSE
    /\ post_log = <<>>

----------------------------------------------------------------------------
(* check_shore_temp.main: the one-shot script *)

\* the guard dropped: the failure notice is always sent
ConfiguredAlways == TRUE

\* if TELEGRAM_BOT_TOKEN and TELEGRAM_CHAT_ID
Configured == TELEGRAM_BOT_TOKEN # "" /\ TELEGRAM_CHAT_ID # <<>>

NoteThreshold == 50

\* the message of the day: the reading, and a note when temp > 50
DailyMessage(temp) ==
    [body |-> "Chicago Shore water temp", temp |-> Some(temp),
     note |-> IF temp > NoteThreshold THEN "good time for the lake" ELSE ""]

FailureMessage == [body |-> "Chicago Shore: could not fetch temperature.", temp |-> None, note |-> ""]

\* temp = fetch_chicago_shore_temp()
MainFetch ==
    /\ pc = "main"
    /\ FetchEnter(DefaultMaxRetries)
    /\ pc' = "main_fetching"
    /\ UNCHANGED <<app_built, started, replies>>
    /\ UNCHANGED <<cfgVars, sendVars>>

\* temp is None: the failure notice is sent when the notifier is configured
MainNoValue ==
    /\ pc = "main_fetching"
    /\ fpc = "done"
    /\ fetch_ret = None
    /\ IF Configured
       THEN /\ SendEnter(FailureMessage)
            /\ pc' = "main_sending"
       ELSE /\ pc' = "exit"
            /\ UNCHANGED sendVars
    /\ UNCHANGED <<app_built, started, replies>>
    /\ UNCHANGED <<cfgVars, fetchVars>>

\* temp is an integer: the message is built and sent
MainValue ==
    /\ pc = "main_fetching"
    /\ fpc = "done"
    /\ fetch_ret # None
    /\ SendEnter(DailyMessage(fetch_ret[1]))
    /\ pc' = "main_sending"
    /\ UNCHANGED <<app_built, started, replies>>
    /\ UNCHANGED <<cfgVars, fetchVars>>

\* send_telegram has returned; its result is not looked at
MainReturn ==
    /\ pc = "main_sending"
    /\ spc = "done"
    /\ pc' = "exit"
    /\ UNCHANGED <<app_built, started, replies>>
    /\ UNCHANGED <<cfgVars, fetchVars, sendVars>>

MainDocs ==
    { <<"L", ".", ".", "4", "7", ".">>,
      <<"L", ".", ".", "5", "0", ".">>,
      <<"L", ".", ".", "5", "1", ".">>,
      <<"L", " ", "t", "e", "x", "t", " ", "7", "2", " ", "F">>,
      <<"L", " ", "N", "/", "A">>,
      <<"x">> }

MainChatIds == {<<>>, <<"1">>, <<"1", ",", " ", "2">>, <<",">>}

InitMain ==
    /\ TELEGRAM_BOT_TOKEN \in TokenSettings
    /\ TELEGRAM_CHAT_ID \in MainChatIds
    /\ RENDER_EXTERNAL_URL = ""
    /\ text_content \in MainDocs
    /\ IdleFetch /\ IdleSend
    /\ pc = "main"
    /\ app_built = FALSE
    /\ started = {}
    /\ replies = <<>>

NextMain ==
    \/ MainFetch \/ GetOk \/ GetFail \/ FetchExhausted \/ FetchParse
    \/ MainNoValue \/ MainValue
    \/ PostOk \/ PostRejected \/ PostException \/ SendReturn
    \/ MainReturn

SpecMain == InitMain /\ [][NextMain]_vars

\* number of calls of fetch_chicago_shore_temp begun so far
FetchCalls == Len(returns) + (IF fpc \in {"loop", "parse"} THEN 1 ELSE 0)

\* C8 as stated: every run has called the extractor once and the notifier
\* once when it exits.
C8_OneFetchOneSend ==
    pc = "exit" => (FetchCalls = 1 /\ send_calls = 1)

\* C8 as amended: the extractor is called exactly once; the notifier is
\* called at most once and only after the extractor has returned: exactly
\* once on the value path, and on the "no value" path exactly once when
\* both the token and the chat-id setting are non-empty and not at all
\* otherwise.
C8_OneFetchAtMostOneSend ==
    /\ FetchCalls <= 1
    /\ send_calls <= 1
    /\ send_calls = 1 => (fpc = "done" /\ Len(returns) = 1)
    /\ pc = "exit" =>
          /\ FetchCalls = 1
          /\ send_calls = IF fetch_ret = None /\ (TELEGRAM_BOT_TOKEN = "" \/ TELEGRAM_CHAT_ID = <<>>)
                          THEN 0 ELSE 1

\* the "no value" path with the notifier configured: one fetch, one send
C8_Witness ==
    /\ pc = "exit"
    /\ fetch_ret = None
    /\ send_calls = 1
    /\ text = FailureMessage
    /\ post_log # <<>>

----------------------------------------------------------------------------
(* bot.py: startup and the command handlers *)

\* the choice inverted
TransportInverted(url) == IF url # "" THEN "polling" ELSE "webhook"

\* if RENDER_EXTERNAL_URL: app.run_webhook(...) else: app.run_polling(...)
Transport(url) == IF url # "" THEN "webhook" ELSE "polling"

\* round(x) for x = n / d with d > 0: to the nearest integer, ties to even
PyRound(n, d) ==
    LET q == n \div d
        r == n % d
    IN  IF 2 * r < d THEN q
        ELSE IF 2 * r > d THEN q + 1
        ELSE IF q % 2 = 0 THEN q ELSE q + 1

\* round((temp - 32) * 5 / 9)
Celsius(temp) == PyRound((temp - 32) * 5, 9)

\* the thresholds compared with > instead of >=
VibeStrict(temp) ==
    IF temp > 70 THEN [icon |-> "fire", vibe |-> "Perfect beach day!"]
    ELSE IF temp > 60 THEN [icon |-> "sun", vibe |-> "Great for the lake."]
    ELSE IF temp > 50 THEN [icon |-> "sun behind cloud", vibe |-> "A bit cool - wetsuits recommended."]
    ELSE IF temp > 40 THEN [icon |-> "cold face", vibe |-> "Cold. For brave swimmers only."]
    ELSE [icon |-> "snowflake", vibe |-> "Way too cold. Stay on the shore."]

\* the if/elif chain of temp_command (icons by name, the dash in ASCII)
Vibe(temp) ==
    IF temp >= 70 THEN [icon |-> "fire", vibe |-> "Perfect beach day!"]
    ELSE IF temp >= 60 THEN [icon |-> "sun", vibe |-> "Great for the lake."]
    ELSE IF temp >= 50 THEN [icon |-> "sun behind cloud", vibe |-> "A bit cool - wetsuits recommended."]
    ELSE IF temp >= 40 THEN [icon |-> "cold face", vibe |-> "Cold. For brave swimmers only."]
    ELSE [icon |-> "snowflake", vibe |-> "Way too cold. Stay on the shore."]

Reply(kind, name, temp, temp_c, icon, vibe) ==
    [kind |-> kind, name |-> name, temp |-> temp, temp_c |-> temp_c, icon |-> icon, vibe |-> vibe]

Canned(kind) == Reply(kind, "", None, None, "", "")

Apology == Canned("apology")

TemperatureReply(temp) ==
    Reply("temperature", "", Some(temp), Some(Celsius(temp)), Vibe(temp).icon, Vibe(temp).vibe)

\* main: without a token nothing is built or started; with one the
\* application is built, the handlers registered and one transport started
BotMain ==
    /\ pc = "bot_main"
    /\ IF TELEGRAM_BOT_TOKEN = ""
       THEN /\ pc' = "exit"
            /\ UNCHANGED <<app_built, started>>
       ELSE /\ app_built' = TRUE
            /\ started' = started \cup {Transport(RENDER_EXTERNAL_URL)}
            /\ pc' = "serving"
    /\ UNCHANGED replies
    /\ UNCHANGED <<cfgVars, fetchVars, sendVars>>

\* /start: the welcome text, addressed to the user's first name or "there"
StartCommand ==
    /\ pc = "serving"
    /\ Len(replies) < MaxUpdates
    /\ \E name \in {"there", "Ann"} :
          replies' = Append(replies, Reply("welcome", name, None, None, "", ""))
    /\ UNCHANGED <<pc, app_built, started>>
    /\ UNCHANGED <<cfgVars, fetchVars, sendVars>>

\* /help
HelpCommand ==
    /\ pc = "serving"
    /\ Len(replies) < MaxUpdates
    /\ replies' = Append(replies, Canned("help"))
    /\ UNCHANGED <<pc, app_built, started>>
    /\ UNCHANGED <<cfgVars, fetchVars, sendVars>>

\* any text that is not a command
UnknownMessage ==
    /\ pc = "serving"
    /\ Len(replies) < MaxUpdates
    /\ replies' = Append(replies, Canned("fallback"))
    /\ UNCHANGED <<pc, app_built, started>>
    /\ UNCHANGED <<cfgVars, fetchVars, sendVars>>

\* /temp, first half: the "Checking NOAA..." reply, then the extractor is called
TempCommand ==
    /\ pc = "serving"
    /\ Len(replies) < MaxUpdates
    /\ replies' = Append(replies, Canned("checking"))
    /\ FetchEnter(DefaultMaxRetries)
    /\ pc' = "temp_fetching"
    /\ UNCHANGED <<app_built, started>>
    /\ UNCHANGED <<cfgVars, sendVars>>

\* /temp, second half: the apology or the formatted reading
TempReply ==
    /\ pc = "temp_fetching"
    /\ fpc = "done"
    /\ replies' = Append(replies, IF fetch_ret = None THEN Apology
                                  ELSE TemperatureReply(fetch_ret[1]))
    /\ pc' = "serving"
    /\ UNCHANGED <<app_built, started>>
    /\ UNCHANGED <<cfgVars, fetchVars, sendVars>>

\* the transport is stopped (Ctrl+C): run_webhook / run_polling returns and main ends
BotStop ==
    /\ pc = "serving"
    /\ pc' = "exit"
    /\ UNCHANGED <<app_built, started, replies>>
    /\ UNCHANGED <<cfgVars, fetchVars, sendVars>>

Reading(d1, d2) == <<"L", ".", ".", d1, d2, ".">>

BotDocs ==
    { Reading("3", "8"), Reading("3", "9"), Reading("4", "0"), Reading("4", "9"),
      Reading("5", "0"), Reading("5", "1"), Reading("5", "9"), Reading("6", "0"),
      Reading("6", "9"), Reading("7", "0"), Reading("7", "2"),
      <<"L", ".", "0">>, <<"L", ".", "1", "0", "4">>,
      <<"L", " ", "t", "e", "x", "t", " ", "6", "5", " ", "F">>,
      <<"L", " ", "N", "/", "A">> }

InitBot ==
    /\ TELEGRAM_BOT_TOKEN \in TokenSettings
    /\ TELEGRAM_CHAT_ID = <<>>
    /\ RENDER_EXTERNAL_URL \in {"", "https://bot.example"}
    /\ text_content \in BotDocs
    /\ IdleFetch /\ IdleSend
    /\ pc = "bot_main"
    /\ app_built = FALSE
    /\ started = {}
    /\ replies = <<>>

NextBot ==
    \/ BotMain \/ StartCommand \/ HelpCommand \/ UnknownMessage
    \/ TempCommand \/ GetOk \/ GetFail \/ FetchExhausted \/ FetchParse \/ TempReply
    \/ BotStop

SpecBot == InitBot /\ [][NextBot]_vars

LastReply == replies[Len(replies)]

\* the /temp handler has just sent its final reply
TempAnswered ==
    /\ replies # <<>>
    /\ LastReply.kind \in {"apology", "temperature"}

\* C7 as stated: two phrases split at 50, the one 72 gets for every reading
\* above 50 and the one 38 gets for every other reading.
C7_TwoPhrasesAtFifty ==
    (TempAnswered /\ fetch_ret # None) =>
        LastReply.vibe = IF fetch_ret[1] > 50 THEN "Perfect beach day!"
                         ELSE "Way too cold. Stay on the shore."

\* C7 as amended: the final reply is fixed by the extractor's result: the
\* apology, carrying no temperature, on None; on an integer t the reading t
\* with the comment of t's band, the bands starting at 70, 60, 50 and 40.
C7_ReplyByBand ==
    TempAnswered =>
        IF fetch_ret = None
        THEN LastReply = Apology /\ LastReply.temp = None
        ELSE LET t == fetch_ret[1]
             IN  /\ LastReply.kind = "temperature"
                 /\ LastReply.temp = Some(t)
                 /\ t >= 70 => LastReply.vibe = "Perfect beach day!"
                 /\ (t >= 60 /\ t < 70) => LastReply.vibe = "Great for the lake."
                 /\ (t >= 50 /\ t < 60) => LastReply.vibe = "A bit cool - wetsuits recommended."
                 /\ (t >= 40 /\ t < 50) => LastReply.vibe = "Cold. For brave swimmers only."
                 /\ t < 40 => LastReply.vibe = "Way too cold. Stay on the shore."

\* a reading exactly on a band's edge
C7_Witness ==
    /\ TempAnswered
    /\ fetch_ret = Some(50)
    /\ LastReply.temp = Some(50)
    /\ LastReply.temp_c = Some(10)
    /\ LastReply.vibe = "A bit cool - wetsuits recommended."

\* C9: at most one transport is ever started; none, and no application,
\* without a token; with a token, once main has run, the webhook transport
\* exactly when RENDER_EXTERNAL_URL is set and the polling transport
\* otherwise.
C9_OneTransport ==
    /\ Cardinality(started) <= 1
    /\ TELEGRAM_BOT_TOKEN = "" => (~app_built /\ started = {})
    /\ (TELEGRAM_BOT_TOKEN # "" /\ pc # "bot_main") =>
          /\ app_built
          /\ RENDER_EXTERNAL_URL # "" => started = {"webhook"}
          /\ RENDER_EXTERNAL_URL = "" => started = {"polling"}
    /\ pc = "bot_main" => (~app_built /\ started = {})

C9_Witness ==
    /\ pc = "serving"
    /\ RENDER_EXTERNAL_URL # ""
    /\ started = {"webhook"}
    /\ replies # <<>>

====
